---- MODULE Spec2Model ----
(***************************************************************************)
(* The voice-activity-gated capture and streaming sketch                   *)
(* funciona2/mic_motorista.ino: the capture callback onPDMdata, the main   *)
(* thread (setup, loop, connectWiFi, processAudioWithVAD, sendAudioData)   *)
(* and calculateCRC16.                                                     *)
(*                                                                         *)
(* The main thread is a program counter pc; the capture callback is an     *)
(* interrupt that may run between any two steps of the main thread.  A     *)
(* buffer of 16-bit samples is a sequence of runs [v |-> word, n |-> count]*)
(* (count consecutive samples holding the same 16-bit word).               *)
(***************************************************************************)
EXTENDS Integers, Sequences, FiniteSets, TLC

VARIABLES
    pc,               \* position of the main thread
    ret,              \* where connectWiFi returns to
    wifiBegun,        \* WiFi.begin() has been called
    udpBound,         \* udp.begin(LOCAL_PORT) has been called
    pdm,              \* capture source: "off", "running", "failed"
    now,              \* millis()
    audioBuffer,      \* short audioBuffer[BUFFER_SIZE]
    sendBuffer,       \* short sendBuffer[PACKET_SIZE/2]
    samplesRead,      \* volatile int samplesRead
    audioReady,       \* volatile bool audioReady
    silenceCounter,
    voiceCounter,
    isTransmitting,
    lastActivityTime,
    packetSequence,
    energy,           \* local of processAudioWithVAD
    isFinal,          \* parameter of sendAudioData
    header,           \* local of sendAudioData
    lastPkt,          \* the datagram the last step of the main thread handed to udp.endPacket()
    frame,            \* observation of the frame being processed, until the next loop() pass
    uttPkts,          \* observation: packets emitted since isTransmitting last became true
    voicedRun,        \* observation: consecutive processed frames classified voiced
    silentRun,        \* observation: consecutive processed frames classified silent
    scen,             \* observation: processed frames matching ScenarioEnergies so far, -1 when off
    scenLog,          \* observation: <<frame index, flags>> of the packets emitted on the scenario
    prevPkt,          \* observation: flags and sequence of the packet emitted last
    capturedAt,       \* observation: millis() when onPDMdata last filled audioBuffer
    sequenceNumber    \* uint32_t sequenceNumber of mic_passageiro.ino

vars == <<pc, ret, wifiBegun, udpBound, pdm, now, audioBuffer, sendBuffer,
          samplesRead, audioReady, silenceCounter, voiceCounter, isTransmitting,
          lastActivityTime, packetSequence, energy, isFinal, header, lastPkt,
          frame, uttPkts, voicedRun, silentRun, scen, scenLog, prevPkt, capturedAt,
          sequenceNumber>>

----------------------------------------------------------------------------
\* Configuration of the sketch.

DEVICE_ID == 1
SAMPLE_RATE == 16000
BUFFER_SIZE == 512
PACKET_SIZE == 480
ENERGY_THRESHOLD == 800
SILENCE_FRAMES == 10
MIN_VOICE_FRAMES == 3

\* sizeof(AudioPacket), packed: sequence, timestamp, device_id, sample_rate,
\* samples_count, checksum, flags, reserved.
HeaderSize == 4 + 4 + 2 + 2 + 2 + 2 + 1 + 1

Uint16 == 65536

----------------------------------------------------------------------------
\* Bounds of the model.

\* No further frame is taken once a debounce counter has reached MaxCount.
MaxCount == 11
\* No further frame is taken once packetSequence has reached MaxSeq.
MaxSeq == 12
\* The uint32_t packetSequence is kept modulo SeqWrap, a counter of fewer bits; MaxSeq
\* lies below it.
SeqWrap == 16

\* millis() does not advance past MaxTime.
MaxTime == 2
\* calculateCRC16 is applied to payloads of up to MaxCrcSamples samples.
MaxCrcSamples == 2
\* 16-bit words of those payloads.
CrcWords == {0, 1, 255, 256, 4660, 32768, 40961, 65535}

\* 16-bit words the capture source delivers: the samples 200 and -900.
SampleWords == {200, 64636}
\* Bytes PDM.available() reports to the callback: a single byte, one sample.
BurstBytes == {1, 2}
\* Bursts of one whole sample.
SampleBurstBytes == {2}
\* Bursts of one and of five samples.
SilentBurstBytes == {2, 10}
\* Burst sizes around the packet limit: 231 samples (a 480-byte datagram) and the
\* whole capture buffer of BUFFER_SIZE bytes.
FullBurstBytes == {462, BUFFER_SIZE}

\* Frame energies of the scenario: three voiced frames, then ten silent ones.
ScenarioEnergies == <<900, 900, 900, 200, 200, 200, 200, 200, 200, 200, 200, 200, 200>>

----------------------------------------------------------------------------
\* Sample buffers as runs.

Min(a, b) == IF a < b THEN a ELSE b

\* The short a 16-bit word holds, and abs() of it (computed in int).
Signed16(w) == IF w >= 32768 THEN w - Uint16 ELSE w
Abs(x) == IF x < 0 THEN 0 - x ELSE x

RECURSIVE TakeRuns(_, _)
\* The first k samples of a buffer.
TakeRuns(r, k) ==
    IF k <= 0 \/ r = <<>> THEN <<>>
    ELSE IF Head(r).n <= k THEN <<Head(r)>> \o TakeRuns(Tail(r), k - Head(r).n)
    ELSE <<[v |-> Head(r).v, n |-> k]>>

RECURSIVE DropRuns(_, _)
\* A buffer without its first k samples.
DropRuns(r, k) ==
    IF k <= 0 \/ r = <<>> THEN r
    ELSE IF Head(r).n <= k THEN DropRuns(Tail(r), k - Head(r).n)
    ELSE <<[v |-> Head(r).v, n |-> Head(r).n - k]>> \o Tail(r)

RECURSIVE Normalize(_)
\* The same samples with equal neighbouring runs merged and empty runs dropped.
Normalize(r) ==
    IF r = <<>> THEN <<>>
    ELSE IF Head(r).n = 0 THEN Normalize(Tail(r))
    ELSE LET rest == Normalize(Tail(r)) IN
         IF rest # <<>> /\ Head(rest).v = Head(r).v
         THEN <<[v |-> Head(r).v, n |-> Head(r).n + Head(rest).n]>> \o Tail(rest)
         ELSE <<Head(r)>> \o rest

RECURSIVE RunsLen(_)
RunsLen(r) == IF r = <<>> THEN 0 ELSE Head(r).n + RunsLen(Tail(r))

\* The word at index i (from 0).
WordAt(r, i) == Head(DropRuns(r, i)).v

RECURSIVE SumAbs(_)
SumAbs(r) == IF r = <<>> THEN 0 ELSE Abs(Signed16(Head(r).v)) * Head(r).n + SumAbs(Tail(r))

RECURSIVE BytesOf(_)
\* The bytes of a buffer, little-endian.
BytesOf(r) ==
    IF r = <<>> THEN <<>>
    ELSE IF Head(r).n = 0 THEN BytesOf(Tail(r))
    ELSE <<Head(r).v % 256, Head(r).v \div 256>>
         \o BytesOf(<<[v |-> Head(r).v, n |-> Head(r).n - 1]>> \o Tail(r))

\* PDM.read(audioBuffer, bytes) of a burst whose samples all hold word w: bytes \div 2
\* whole samples, and on an odd count the low byte of the next one.
PDMread(buf, bytes, w) ==
    LET k == bytes \div 2
        odd == bytes % 2
        torn == IF odd = 1
                THEN <<[v |-> (WordAt(buf, k) \div 256) * 256 + (w % 256), n |-> 1]>>
                ELSE <<>>
    IN Normalize(<<[v |-> w, n |-> k]>> \o torn \o DropRuns(buf, k + odd))

\* memcpy(dst, src, samples * 2)
memcpy(dst, src, samples) == Normalize(TakeRuns(src, samples) \o DropRuns(dst, samples))

----------------------------------------------------------------------------
\* calculateCRC16

RECURSIVE Xor(_, _)
\* a ^ b on naturals.
Xor(a, b) ==
    IF a = 0 THEN b
    ELSE IF b = 0 THEN a
    ELSE (((a % 2) + (b % 2)) % 2) + 2 * Xor(a \div 2, b \div 2)

RECURSIVE crcBits(_, _)
\* The inner loop: for (j = 0; j < 8; j++), on the uint16_t crc.
crcBits(crc, j) ==
    IF j >= 8 THEN crc
    ELSE IF crc % 2 = 1 THEN crcBits(Xor(crc \div 2, 40961), j + 1)
    ELSE crcBits(crc \div 2, j + 1)

RECURSIVE crcBytes(_, _, _, _)
\* The outer loop: for (i = 0; i < length; i++); data[i] is the model's data[i + 1].
crcBytes(data, length, i, crc) ==
    IF i >= length THEN crc
    ELSE crcBytes(data, length, i + 1, crcBits(Xor(crc, data[i + 1]), 0))

calculateCRC16_zeroSeed(data, length) == crcBytes(data, length, 0, 0)
\* uint16_t crc = 0xFFFF; ... return crc;
calculateCRC16(data, length) == crcBytes(data, length, 0, 65535)

----------------------------------------------------------------------------
\* Conditions and expressions of processAudioWithVAD and sendAudioData.

voiceDetected(e) == e > ENERGY_THRESHOLD

startTransmission_late(tx, vc) == ~tx /\ vc > MIN_VOICE_FRAMES
startTransmission(tx, vc) == ~tx /\ vc >= MIN_VOICE_FRAMES

stopTransmission_late(tx, sc) == tx /\ sc > SILENCE_FRAMES
stopTransmission(tx, sc) == tx /\ sc >= SILENCE_FRAMES

transmitFrame_gated(tx, e) == tx /\ voiceDetected(e)
transmitFrame_voiced(tx, e) == tx \/ voiceDetected(e)
\* if (isTransmitting): the frame is sent whatever its classification
transmitFrame(tx, e) == tx

headerSequence_pre(seq) == seq + 1
\* header.sequence = packetSequence++ : the value before the increment
headerSequence(seq) == seq

samplesToSend_unclamped(sr) == sr
\* int samplesToSend = min(samplesRead, PACKET_SIZE/2)
samplesToSend(sr) == Min(sr, PACKET_SIZE \div 2)

samplesCount_unclamped(sr) == sr
\* min(samplesRead, PACKET_SIZE/2)
samplesCount(sr) == Min(sr, PACKET_SIZE \div 2)

headerFlags_always(seqAfter, final) == 1 + (IF final THEN 2 ELSE 0)
\* flags = 0; if (packetSequence == 1) flags |= 0x01; if (isFinal) flags |= 0x02;
\* packetSequence is read after its increment.
headerFlags(seqAfter, final) ==
    (IF seqAfter = 1 THEN 1 ELSE 0) + (IF final THEN 2 ELSE 0)

payloadSamples_reread(h, sr) == samplesCount(sr)
\* udp.write((uint8_t*)sendBuffer, header.samples_count * 2)
payloadSamples(h, sr) == h.samples_count

afterPdmFailure_continue == "loop_wifi"
\* while (1); after a failed PDM.begin
afterPdmFailure == "halt_pdm"

\* The value of header.checksum: the header keeps the arguments of calculateCRC16,
\* the bytes of sendBuffer and the length header.samples_count * 2.
Checksum(h) == calculateCRC16(BytesOf(h.checksum.data), h.checksum.length)

NoHeader == [sequence |-> 0, timestamp |-> 0, device_id |-> 0, sample_rate |-> 0,
             samples_count |-> 0, checksum |-> [data |-> <<>>, length |-> 0],
             flags |-> 0, reserved |-> 0]
NoPacket == [header |-> NoHeader, payload |-> <<>>, length |-> 0, delivered |-> FALSE]
\* No packet has been emitted yet.
NoMark == [flags |-> 0, sequence |-> -1]
NoFrame == [active |-> FALSE, tx0 |-> FALSE, seq0 |-> 0, copied |-> FALSE, n |-> 0, log |-> <<>>,
            reads |-> <<>>, t |-> 0]

----------------------------------------------------------------------------
Init ==
    /\ pc = "setup"
    /\ ret = "none"
    /\ wifiBegun = FALSE
    /\ udpBound = FALSE
    /\ pdm = "off"
    /\ now = 0
    /\ audioBuffer = <<[v |-> 0, n |-> BUFFER_SIZE]>>
    /\ sendBuffer = <<[v |-> 0, n |-> PACKET_SIZE \div 2]>>
    /\ samplesRead = 0
    /\ audioReady = FALSE
    /\ silenceCounter = 0
    /\ voiceCounter = 0
    /\ isTransmitting = FALSE
    /\ lastActivityTime = 0
    /\ packetSequence = 0
    /\ energy = 0
    /\ isFinal = FALSE
    /\ header = NoHeader
    /\ lastPkt = NoPacket
    /\ frame = NoFrame
    /\ uttPkts = 0
    /\ voicedRun = 0
    /\ silentRun = 0
    /\ scen = 0
    /\ scenLog = <<>>
    /\ prevPkt = NoMark
    /\ capturedAt = 0
    /\ sequenceNumber = 0

netVars == <<wifiBegun, udpBound>>
captureVars == <<pdm, audioBuffer, samplesRead, audioReady>>
vadVars == <<silenceCounter, voiceCounter, isTransmitting, lastActivityTime>>
runVars == <<uttPkts, voicedRun, silentRun, scen, scenLog, prevPkt>>

----------------------------------------------------------------------------
\* setup()

\* if (WiFi.status() == WL_NO_MODULE) while (1); else connectWiFi()
setup_checkModule ==
    /\ pc = "setup"
    /\ \E status \in {"WL_NO_MODULE", "WL_IDLE_STATUS"} :
         IF status = "WL_NO_MODULE"
         THEN pc' = "halt_wifi" /\ ret' = ret
         ELSE pc' = "connect_begin" /\ ret' = "setup_udp"
    /\ lastPkt' = NoPacket
    /\ UNCHANGED <<netVars, captureVars, vadVars, sendBuffer, packetSequence, isFinal,
                   header, frame, runVars, now, capturedAt, sequenceNumber, energy>>

\* udp.begin(LOCAL_PORT)
setup_udpBegin ==
    /\ pc = "setup_udp"
    /\ udpBound' = TRUE
    /\ pc' = "setup_pdm"
    /\ lastPkt' = NoPacket
    /\ UNCHANGED <<ret, wifiBegun, captureVars, vadVars, sendBuffer, packetSequence,
                   isFinal, header, frame, runVars, now, capturedAt, sequenceNumber, energy>>

\* PDM.onReceive, PDM.setBufferSize, PDM.begin: on failure the sketch halts
setup_pdmBegin ==
    /\ pc = "setup_pdm"
    /\ \E ok \in BOOLEAN :
         IF ok THEN pdm' = "running" /\ pc' = "loop_wifi"
         ELSE pdm' = "failed" /\ pc' = afterPdmFailure
    /\ lastPkt' = NoPacket
    /\ UNCHANGED <<ret, netVars, audioBuffer, samplesRead, audioReady, vadVars, sendBuffer,
                   packetSequence, isFinal, header, frame, runVars, now, capturedAt, sequenceNumber, energy>>

----------------------------------------------------------------------------
\* connectWiFi()

\* A reconnect that starts the voice activity state afresh.
connectWiFi_begin_reset ==
    /\ pc = "connect_begin"
    /\ wifiBegun' = TRUE
    /\ pc' = "connect_wait"
    /\ lastPkt' = NoPacket
    /\ isTransmitting' = FALSE
    /\ voiceCounter' = 0
    /\ silenceCounter' = 0
    /\ UNCHANGED <<ret, udpBound, captureVars, lastActivityTime, sendBuffer, packetSequence,
                   isFinal, header, frame, runVars, now, capturedAt, sequenceNumber, energy>>

\* WiFi.begin(ssid, password)
connectWiFi_begin ==
    /\ pc = "connect_begin"
    /\ wifiBegun' = TRUE
    /\ pc' = "connect_wait"
    /\ lastPkt' = NoPacket
    /\ UNCHANGED <<ret, udpBound, captureVars, vadVars, sendBuffer, packetSequence,
                   isFinal, header, frame, runVars, now, capturedAt, sequenceNumber, energy>>

\* while (WiFi.status() != WL_CONNECTED) delay(500);  the step that reads
\* WL_CONNECTED and returns
connectWiFi_wait ==
    /\ pc = "connect_wait"
    /\ pc' = ret
    /\ ret' = "none"
    /\ lastPkt' = NoPacket
    /\ UNCHANGED <<netVars, captureVars, vadVars, sendBuffer, packetSequence, isFinal,
                   header, frame, runVars, now, capturedAt, sequenceNumber, energy>>

----------------------------------------------------------------------------
\* loop()

\* The top of loop(), after the delay(1) of the pass before:
\* if (WiFi.status() != WL_CONNECTED) connectWiFi();
loop_checkWiFi ==
    /\ pc = "loop_wifi"
    /\ \E status \in {"WL_CONNECTED", "WL_DISCONNECTED"} :
         IF status # "WL_CONNECTED"
         THEN pc' = "connect_begin" /\ ret' = "loop_audio"
         ELSE pc' = "loop_audio" /\ ret' = ret
    /\ frame' = NoFrame
    /\ lastPkt' = NoPacket
    /\ UNCHANGED <<netVars, captureVars, vadVars, sendBuffer, packetSequence, isFinal,
                   header, runVars, now, capturedAt, sequenceNumber, energy>>

\* A pass that processes the frame and leaves the flag set.
loop_takeFrame_noClear ==
    /\ pc = "loop_audio"
    /\ IF audioReady
       THEN /\ voiceCounter < MaxCount
            /\ silenceCounter < MaxCount
            /\ packetSequence < MaxSeq
            /\ audioReady' = audioReady
            /\ pc' = "vad_energy"
            /\ frame' = [active |-> TRUE, tx0 |-> isTransmitting, seq0 |-> packetSequence,
                         copied |-> FALSE, n |-> 0, log |-> <<>>, reads |-> <<>>,
                         t |-> 0]
       ELSE /\ pc' = "loop_wifi"
            /\ UNCHANGED <<audioReady, frame>>
    /\ lastPkt' = NoPacket
    /\ UNCHANGED <<ret, netVars, pdm, audioBuffer, samplesRead, vadVars, sendBuffer,
                   packetSequence, isFinal, header, runVars, now, capturedAt, sequenceNumber, energy>>

\* if (audioReady) { audioReady = false; processAudioWithVAD(); }  and, when there is
\* no frame, the periodic printStatus() and delay(1)
loop_takeFrame ==
    /\ pc = "loop_audio"
    /\ IF audioReady
       THEN /\ voiceCounter < MaxCount
            /\ silenceCounter < MaxCount
            /\ packetSequence < MaxSeq
            /\ audioReady' = FALSE
            /\ pc' = "vad_energy"
            /\ frame' = [active |-> TRUE, tx0 |-> isTransmitting, seq0 |-> packetSequence,
                         copied |-> FALSE, n |-> 0, log |-> <<>>, reads |-> <<>>,
                         t |-> 0]
       ELSE /\ pc' = "loop_wifi"
            /\ UNCHANGED <<audioReady, frame>>
    /\ lastPkt' = NoPacket
    /\ UNCHANGED <<ret, netVars, pdm, audioBuffer, samplesRead, vadVars, sendBuffer,
                   packetSequence, isFinal, header, runVars, now, capturedAt, sequenceNumber, energy>>

\* The same pass of loop() where packetSequence may wrap: only the debounce
\* counters bound the frames taken.
loop_takeFrameWrapped ==
    /\ pc = "loop_audio"
    /\ IF audioReady
       THEN /\ voiceCounter < MaxCount
            /\ silenceCounter < MaxCount
            /\ audioReady' = FALSE
            /\ pc' = "vad_energy"
            /\ frame' = [active |-> TRUE, tx0 |-> isTransmitting, seq0 |-> packetSequence,
                         copied |-> FALSE, n |-> 0, log |-> <<>>, reads |-> <<>>,
                         t |-> 0]
       ELSE /\ pc' = "loop_wifi"
            /\ UNCHANGED <<audioReady, frame>>
    /\ lastPkt' = NoPacket
    /\ UNCHANGED <<ret, netVars, pdm, audioBuffer, samplesRead, vadVars, sendBuffer,
                   packetSequence, isFinal, header, runVars, now, capturedAt, sequenceNumber, energy>>

----------------------------------------------------------------------------
\* processAudioWithVAD()

\* for (i = 0; i < samplesRead; i++) energy += abs(audioBuffer[i]);  the uint32_t
\* energy cannot wrap: BUFFER_SIZE samples of magnitude 32768 sum to less than 2^32.
\* The loop is one step of the main thread.
processAudioWithVAD_sum ==
    /\ pc = "vad_energy"
    /\ energy' = SumAbs(TakeRuns(audioBuffer, samplesRead))
    /\ pc' = "vad_div"
    /\ frame' = [frame EXCEPT !.reads = Append(@, samplesRead)]
    /\ lastPkt' = NoPacket
    /\ UNCHANGED <<ret, netVars, captureVars, vadVars, sendBuffer, packetSequence, isFinal,
                   header, runVars, now, capturedAt, sequenceNumber>>

\* What energy /= samplesRead leaves in energy.  A division by zero is undefined:
\* the quotient is 0 or a saturated value.
Saturated == 32767 * Uint16 + 65535
Quotients == IF samplesRead = 0 THEN {0, Saturated} ELSE {energy \div samplesRead}

\* A division by zero that traps.
processAudioWithVAD_fault ==
    /\ pc = "vad_div"
    /\ samplesRead = 0
    /\ pc' = "fault"
    /\ lastPkt' = NoPacket
    /\ UNCHANGED <<ret, netVars, captureVars, vadVars, sendBuffer, packetSequence, isFinal,
                   header, frame, runVars, now, capturedAt, sequenceNumber, energy>>

\* energy /= samplesRead and the VAD logic, up to the call sendAudioData(true) or to
\* the test of isTransmitting that follows it.
processAudioWithVAD_vad ==
    /\ pc = "vad_div"
    /\ \E q \in Quotients :
         /\ energy' = q
         /\ IF voiceDetected(q)
            THEN /\ voiceCounter' = voiceCounter + 1
                 /\ silenceCounter' = 0
                 /\ lastActivityTime' = now
                 /\ IF startTransmission(isTransmitting, voiceCounter')
                    THEN isTransmitting' = TRUE /\ packetSequence' = 0
                    ELSE UNCHANGED <<isTransmitting, packetSequence>>
                 /\ pc' = "vad_tx"
                 /\ isFinal' = isFinal
            ELSE /\ silenceCounter' = silenceCounter + 1
                 /\ voiceCounter' = 0
                 /\ IF stopTransmission(isTransmitting, silenceCounter')
                    THEN pc' = "send_hdr" /\ isFinal' = TRUE
                    ELSE pc' = "vad_tx" /\ isFinal' = isFinal
                 /\ UNCHANGED <<lastActivityTime, isTransmitting, packetSequence>>
         /\ voicedRun' = IF q > ENERGY_THRESHOLD THEN voicedRun + 1 ELSE 0
         /\ silentRun' = IF q > ENERGY_THRESHOLD THEN 0 ELSE silentRun + 1
         /\ scen' = IF scen >= 0 /\ scen < Len(ScenarioEnergies)
                       /\ q = ScenarioEnergies[scen + 1]
                    THEN scen + 1 ELSE -1
    /\ uttPkts' = IF isTransmitting' /\ ~isTransmitting THEN 0 ELSE uttPkts
    /\ scenLog' = IF scen' = -1 THEN <<>> ELSE scenLog
    /\ prevPkt' = prevPkt
    /\ lastPkt' = NoPacket
    /\ frame' = [frame EXCEPT !.reads = Append(@, samplesRead)]
    /\ UNCHANGED <<ret, netVars, captureVars, sendBuffer, header, now, capturedAt, sequenceNumber>>

\* A stop that leaves isTransmitting set.
processAudioWithVAD_stop_keep ==
    /\ pc = "vad_stop"
    /\ isTransmitting' = isTransmitting
    /\ pc' = "vad_tx"
    /\ lastPkt' = NoPacket
    /\ UNCHANGED <<ret, netVars, captureVars, silenceCounter, voiceCounter,
                   lastActivityTime, sendBuffer, packetSequence, isFinal, header, frame,
                   runVars, now, capturedAt, sequenceNumber, energy>>

\* A stop that clears both debounce counters.
processAudioWithVAD_stop_reset ==
    /\ pc = "vad_stop"
    /\ isTransmitting' = FALSE
    /\ silenceCounter' = 0
    /\ voiceCounter' = 0
    /\ pc' = "vad_tx"
    /\ lastPkt' = NoPacket
    /\ UNCHANGED <<ret, netVars, captureVars,
                   lastActivityTime, sendBuffer, packetSequence, isFinal, header, frame,
                   runVars, now, capturedAt, sequenceNumber, energy>>

\* isTransmitting = false; after sendAudioData(true) has returned
processAudioWithVAD_stop ==
    /\ pc = "vad_stop"
    /\ isTransmitting' = FALSE
    /\ pc' = "vad_tx"
    /\ lastPkt' = NoPacket
    /\ UNCHANGED <<ret, netVars, captureVars, silenceCounter, voiceCounter,
                   lastActivityTime, sendBuffer, packetSequence, isFinal, header, frame,
                   runVars, now, capturedAt, sequenceNumber, energy>>

\* if (isTransmitting) { memcpy(sendBuffer, audioBuffer, samplesToSend * 2);
\* sendAudioData(false); }  and, when not transmitting, the return to loop()
processAudioWithVAD_transmit ==
    /\ pc = "vad_tx"
    /\ IF transmitFrame(isTransmitting, energy)
       THEN /\ sendBuffer' = memcpy(sendBuffer, audioBuffer, samplesToSend(samplesRead))
            /\ isFinal' = FALSE
            /\ pc' = "send_hdr"
            /\ frame' = [frame EXCEPT !.copied = TRUE, !.n = samplesRead,
                                      !.reads = Append(@, samplesRead), !.t = capturedAt]
       ELSE /\ pc' = "loop_wifi"
            /\ UNCHANGED <<sendBuffer, isFinal, frame>>
    /\ energy' = 0
    /\ lastPkt' = NoPacket
    /\ UNCHANGED <<ret, netVars, captureVars, vadVars, packetSequence, header, runVars, now, capturedAt, sequenceNumber>>

----------------------------------------------------------------------------
\* sendAudioData(isFinal)

\* The header, and packetSequence++ on the unsigned counter, which wraps.
sendAudioData_header ==
    /\ pc = "send_hdr"
    /\ packetSequence' = (packetSequence + 1) % SeqWrap
    /\ header' =
         LET count == samplesCount(samplesRead) % Uint16 IN
         [sequence |-> headerSequence(packetSequence),
          timestamp |-> now,
          device_id |-> DEVICE_ID,
          sample_rate |-> SAMPLE_RATE,
          samples_count |-> count,
          checksum |-> [data |-> TakeRuns(sendBuffer, count), length |-> count * 2],
          flags |-> headerFlags(packetSequence', isFinal),
          reserved |-> 0]
    /\ pc' = "send_udp"
    /\ frame' = [frame EXCEPT !.reads = Append(@, samplesRead)]
    /\ lastPkt' = NoPacket
    /\ UNCHANGED <<ret, netVars, captureVars, vadVars, sendBuffer, isFinal, runVars,
                   now, capturedAt, sequenceNumber, energy>>

\* A send that gives the utterance up when udp.endPacket() fails.
sendAudioData_udp_abort ==
    /\ pc = "send_udp"
    /\ \E ok \in BOOLEAN :
         /\ lastPkt' = [header |-> header,
                        payload |-> TakeRuns(sendBuffer, payloadSamples(header, samplesRead)),
                        length |-> payloadSamples(header, samplesRead) * 2,
                        delivered |-> ok]
         /\ isTransmitting' = (isTransmitting /\ ok)
    /\ pc' = IF isFinal THEN "vad_stop" ELSE "loop_wifi"
    /\ isFinal' = FALSE
    /\ header' = NoHeader
    /\ frame' = [frame EXCEPT !.log = Append(@, [flags |-> header.flags,
                                                  n |-> header.samples_count,
                                                  sequence |-> header.sequence])]
    /\ uttPkts' = Min(uttPkts + 1, SeqWrap)
    /\ scenLog' = IF scen >= 0 THEN Append(scenLog, <<scen, header.flags>>) ELSE scenLog
    /\ prevPkt' = [flags |-> header.flags, sequence |-> header.sequence]
    /\ UNCHANGED <<ret, netVars, captureVars, silenceCounter, voiceCounter,
                   lastActivityTime, sendBuffer, packetSequence,
                   voicedRun, silentRun, scen, now, capturedAt, sequenceNumber, energy>>

\* udp.beginPacket, the two udp.write and udp.endPacket, which may fail: the failure
\* is printed and nothing else.  Then the return to the caller.
sendAudioData_udp ==
    /\ pc = "send_udp"
    /\ \E ok \in BOOLEAN :
         lastPkt' = [header |-> header,
                     payload |-> TakeRuns(sendBuffer, payloadSamples(header, samplesRead)),
                     length |-> payloadSamples(header, samplesRead) * 2,
                     delivered |-> ok]
    /\ pc' = IF isFinal THEN "vad_stop" ELSE "loop_wifi"
    /\ isFinal' = FALSE
    /\ header' = NoHeader
    /\ frame' = [frame EXCEPT !.log = Append(@, [flags |-> header.flags,
                                                  n |-> header.samples_count,
                                                  sequence |-> header.sequence])]
    /\ uttPkts' = Min(uttPkts + 1, SeqWrap)
    /\ scenLog' = IF scen >= 0 THEN Append(scenLog, <<scen, header.flags>>) ELSE scenLog
    /\ prevPkt' = [flags |-> header.flags, sequence |-> header.sequence]
    /\ UNCHANGED <<ret, netVars, captureVars, vadVars, sendBuffer, packetSequence,
                   voicedRun, silentRun, scen, now, capturedAt, sequenceNumber, energy>>

----------------------------------------------------------------------------
\* onPDMdata(): the capture callback, with the bytes PDM.available() reports and the
\* word the samples of the burst hold.
onPDMdata(bytesAvailable, w) ==
    /\ pdm = "running"
    /\ pc # "fault"
    /\ bytesAvailable > 0
    /\ audioBuffer' = PDMread(audioBuffer, bytesAvailable, w)
    /\ samplesRead' = bytesAvailable \div 2
    /\ audioReady' = TRUE
    /\ capturedAt' = now
    /\ UNCHANGED <<pc, ret, netVars, pdm, vadVars, sendBuffer, packetSequence, isFinal,
                   header, lastPkt, frame, runVars, now, sequenceNumber, energy>>

Capture == \E b \in BurstBytes, w \in SampleWords : onPDMdata(b, w)

CaptureSamples == \E b \in SampleBurstBytes, w \in SampleWords : onPDMdata(b, w)

CaptureFull == \E b \in FullBurstBytes, w \in SampleWords : onPDMdata(b, w)

----------------------------------------------------------------------------
Main ==
    \/ setup_checkModule
    \/ setup_udpBegin
    \/ setup_pdmBegin
    \/ connectWiFi_begin
    \/ connectWiFi_wait
    \/ loop_checkWiFi
    \/ loop_takeFrame
    \/ processAudioWithVAD_sum
    \/ processAudioWithVAD_vad
    \/ processAudioWithVAD_stop
    \/ processAudioWithVAD_transmit
    \/ sendAudioData_header
    \/ sendAudioData_udp

Next == Main \/ processAudioWithVAD_fault \/ Capture

\* Bursts of a single byte and of one sample.
Spec == Init /\ [][Next]_vars

NextFull == Main \/ CaptureFull

\* Bursts at the size of the capture buffer: every frame holds samples, so the
\* division has no zero divisor.
SpecFull == Init /\ [][NextFull]_vars

----------------------------------------------------------------------------
\* The sketch with millis() advancing between any two steps, on bursts of whole
\* samples.

Tick ==
    /\ now < MaxTime
    /\ now' = now + 1
    /\ UNCHANGED <<pc, ret, netVars, captureVars, vadVars, sendBuffer, packetSequence,
                   isFinal, header, lastPkt, frame, runVars, capturedAt, sequenceNumber,
                   energy>>

NextClock == Main \/ CaptureSamples \/ Tick

SpecClock == Init /\ [][NextClock]_vars

----------------------------------------------------------------------------
\* sendAudioData on every payload of a bounded set: sendBuffer holds the words of
\* the payload, samplesRead their number, and the main thread enters sendAudioData.

\* A sendBuffer that starts with the words ws.
BufferOf(ws) ==
    Normalize([i \in 1..Len(ws) |-> [v |-> ws[i], n |-> 1]]
              \o <<[v |-> 0, n |-> (PACKET_SIZE \div 2) - Len(ws)]>>)

InitCRC ==
    /\ pc = "send_hdr"
    /\ ret = "none"
    /\ wifiBegun = TRUE
    /\ udpBound = TRUE
    /\ pdm = "running"
    /\ now = 0
    /\ audioBuffer = <<[v |-> 0, n |-> BUFFER_SIZE]>>
    /\ \E k \in 0..MaxCrcSamples : \E ws \in [1..k -> CrcWords] :
         /\ sendBuffer = BufferOf(ws)
         /\ samplesRead = k
    /\ audioReady = FALSE
    /\ silenceCounter = 0
    /\ voiceCounter = MIN_VOICE_FRAMES
    /\ isTransmitting = TRUE
    /\ lastActivityTime = 0
    /\ packetSequence = 0
    /\ energy = 0
    /\ isFinal = FALSE
    /\ header = NoHeader
    /\ lastPkt = NoPacket
    /\ frame = [NoFrame EXCEPT !.active = TRUE, !.copied = TRUE, !.n = samplesRead]
    /\ uttPkts = 0
    /\ voicedRun = MIN_VOICE_FRAMES
    /\ silentRun = 0
    /\ scen = -1
    /\ scenLog = <<>>
    /\ prevPkt = NoMark
    /\ capturedAt = 0
    /\ sequenceNumber = 0

NextCRC == sendAudioData_header \/ sendAudioData_udp

SpecCRC == InitCRC /\ [][NextCRC]_vars

----------------------------------------------------------------------------
\* mic_passageiro.ino: the sketch of the passenger node, which sends every frame.
\* Its globals audioBuffer, samplesRead, audioReady and its onPDMdata are those of
\* the sketch above; its buffer holds BUFFER_SIZE_passageiro samples.

BUFFER_SIZE_passageiro == 256
DEVICE_ID_passageiro == 2
\* 0xABCD1234, as its high and low halves
MAGIC_passageiro == <<43981, 4660>>

\* Bytes PDM.available() reports to the callback of the passenger node: one sample,
\* two samples.
PassageiroBurstBytes == {2, 4}

InitPassageiro ==
    /\ pc = "p_setup"
    /\ ret = "none"
    /\ wifiBegun = FALSE
    /\ udpBound = FALSE
    /\ pdm = "off"
    /\ now = 0
    /\ audioBuffer = <<[v |-> 0, n |-> BUFFER_SIZE_passageiro]>>
    /\ sendBuffer = <<[v |-> 0, n |-> PACKET_SIZE \div 2]>>
    /\ samplesRead = 0
    /\ audioReady = FALSE
    /\ silenceCounter = 0
    /\ voiceCounter = 0
    /\ isTransmitting = FALSE
    /\ lastActivityTime = 0
    /\ packetSequence = 0
    /\ energy = 0
    /\ isFinal = FALSE
    /\ header = NoHeader
    /\ lastPkt = NoPacket
    /\ frame = NoFrame
    /\ uttPkts = 0
    /\ voicedRun = 0
    /\ silentRun = 0
    /\ scen = -1
    /\ scenLog = <<>>
    /\ prevPkt = NoMark
    /\ capturedAt = 0
    /\ sequenceNumber = 0

\* What the passenger node leaves alone: the state of the VAD sketch.
motoristaVars == <<ret, sendBuffer, vadVars, packetSequence, energy, isFinal, frame,
                   runVars, now>>

\* setup(): WiFi.begin until WL_CONNECTED, udp.begin(2392), PDM.onReceive,
\* PDM.setBufferSize, PDM.setGain, PDM.begin; on failure while (1)
passageiro_setup ==
    /\ pc = "p_setup"
    /\ wifiBegun' = TRUE
    /\ udpBound' = TRUE
    /\ \E ok \in BOOLEAN :
         IF ok THEN pdm' = "running" /\ pc' = "p_loop"
         ELSE pdm' = "failed" /\ pc' = "p_halt"
    /\ UNCHANGED <<audioBuffer, samplesRead, audioReady, header, lastPkt, capturedAt,
                   sequenceNumber, motoristaVars>>

\* if (audioReady) { audioReady = false; sendAudioData(); }
passageiro_loop ==
    /\ pc = "p_loop"
    /\ IF audioReady
       THEN /\ sequenceNumber < MaxSeq
            /\ audioReady' = FALSE
            /\ pc' = "p_hdr"
       ELSE /\ pc' = "p_wifi"
            /\ UNCHANGED audioReady
    /\ lastPkt' = NoPacket
    /\ UNCHANGED <<netVars, pdm, audioBuffer, samplesRead, header, capturedAt,
                   sequenceNumber, motoristaVars>>

\* sendAudioData(): the header, with samples_count = samplesRead (a uint16_t) and
\* sequence = sequenceNumber++
passageiro_sendHeader ==
    /\ pc = "p_hdr"
    /\ header' = [magic |-> MAGIC_passageiro,
                  timestamp |-> now,
                  device_id |-> DEVICE_ID_passageiro,
                  samples_count |-> samplesRead % Uint16,
                  sequence |-> sequenceNumber]
    /\ sequenceNumber' = sequenceNumber + 1
    /\ pc' = "p_udp"
    /\ lastPkt' = NoPacket
    /\ UNCHANGED <<netVars, captureVars, capturedAt, motoristaVars>>

\* udp.beginPacket; udp.write(&header, sizeof(header));
\* udp.write((uint8_t*)audioBuffer, samplesRead * 2); udp.endPacket();
passageiro_sendPayload ==
    /\ pc = "p_udp"
    /\ \E ok \in BOOLEAN :
         lastPkt' = [header |-> header,
                     payload |-> TakeRuns(audioBuffer, samplesRead),
                     length |-> samplesRead * 2,
                     delivered |-> ok]
    /\ header' = NoHeader
    /\ pc' = "p_wifi"
    /\ UNCHANGED <<netVars, captureVars, capturedAt, sequenceNumber, motoristaVars>>

\* if (WiFi.status() != WL_CONNECTED) WiFi.begin(ssid, password);  delay(1);
passageiro_checkWiFi ==
    /\ pc = "p_wifi"
    /\ \E status \in {"WL_CONNECTED", "WL_DISCONNECTED"} :
         wifiBegun' = (wifiBegun \/ status # "WL_CONNECTED")
    /\ pc' = "p_loop"
    /\ lastPkt' = NoPacket
    /\ UNCHANGED <<udpBound, captureVars, header, capturedAt, sequenceNumber,
                   motoristaVars>>

CapturePassageiro ==
    \E b \in PassageiroBurstBytes, w \in SampleWords : onPDMdata(b, w)

NextPassageiro ==
    \/ passageiro_setup
    \/ passageiro_loop
    \/ passageiro_sendHeader
    \/ passageiro_sendPayload
    \/ passageiro_checkWiFi
    \/ CapturePassageiro

SpecPassageiro == InitPassageiro /\ [][NextPassageiro]_vars

----------------------------------------------------------------------------
\* Properties.

\* The pass of loop() that processed a frame has returned from processAudioWithVAD.
FrameDone == pc = "loop_wifi" /\ frame.active
\* The frame turned isTransmitting from false to true, or from true to false.
FrameStarted == ~frame.tx0 /\ isTransmitting
FrameEnded == frame.tx0 /\ ~isTransmitting

RECURSIVE SentSamples(_)
\* The samples the packets of a frame declare.
SentSamples(log) == IF log = <<>> THEN 0 ELSE Head(log).n + SentSamples(Tail(log))

\* The bytes of a datagram: the packed header and the payload written after it.
PacketBytes(p) == HeaderSize + p.length

\* C1: the first packet after isTransmitting becomes true carries bit0 alone, the packet
\* of the frame that turns isTransmitting false carries bit1 alone, every other packet
\* carries neither, and no packet carries both.
C1_StartEndFlags ==
    /\ \A i \in 1..Len(frame.log) : frame.log[i].flags \in {0, 1, 2}
    /\ FrameDone =>
         /\ FrameStarted =>
              /\ Len(frame.log) >= 1
              /\ frame.log[1].flags = 1
              /\ \A i \in 2..Len(frame.log) : frame.log[i].flags = 0
         /\ FrameEnded =>
              /\ Len(frame.log) >= 1
              /\ frame.log[Len(frame.log)].flags = 2
              /\ \A i \in 1..(Len(frame.log) - 1) : frame.log[i].flags = 0
         /\ (~FrameStarted /\ ~FrameEnded) =>
              \A i \in 1..Len(frame.log) : frame.log[i].flags = 0

\* A frame has ended an utterance and emitted the final packet.
C1_Witness ==
    /\ FrameDone /\ FrameEnded
    /\ Len(frame.log) = 1
    /\ frame.log[1].flags = 2

\* C2: within an utterance the sequence fields are 0, 1, 2, ... in emission order:
\* every packet carries the number of packets emitted before it since isTransmitting
\* became true; packetSequence is 0 on every entry into transmitting and grows by one
\* per emitted packet.
C2_ContiguousSequence ==
    /\ packetSequence = uttPkts + (IF pc = "send_udp" THEN 1 ELSE 0)
    /\ lastPkt # NoPacket => lastPkt.header.sequence = uttPkts - 1
    /\ (pc = "vad_tx" /\ frame.active /\ FrameStarted) => packetSequence = 0
    /\ \A i \in 1..Len(frame.log) : frame.log[i].sequence = frame.seq0 * (IF FrameStarted THEN 0 ELSE 1) + i - 1

\* A second utterance starts: the counter stood above 0 when the frame was taken.
C2_Witness ==
    /\ pc = "vad_tx" /\ frame.active /\ FrameStarted
    /\ frame.seq0 > SILENCE_FRAMES
    /\ packetSequence = 0

\* C3: the node starts transmitting exactly on the MIN_VOICE_FRAMES-th consecutive
\* voiced frame and stops exactly on the SILENCE_FRAMES-th consecutive silent frame.
C3_DebounceBoundaries ==
    FrameDone =>
      /\ FrameStarted <=> (~frame.tx0 /\ voicedRun = MIN_VOICE_FRAMES)
      /\ FrameEnded <=> (frame.tx0 /\ silentRun = SILENCE_FRAMES)
      /\ ~isTransmitting => voicedRun < MIN_VOICE_FRAMES
      /\ isTransmitting => silentRun < SILENCE_FRAMES

\* A frame one short of the silence threshold has left the utterance running.
C3_Witness ==
    /\ FrameDone
    /\ frame.tx0 /\ isTransmitting
    /\ silentRun = SILENCE_FRAMES - 1

\* The thirteen frames of the scenario have been processed, from the idle start.
ScenarioDone == scen = Len(ScenarioEnergies) /\ FrameDone

\* C4 as stated: the scenario produces 4 packets, the first flagged start and the one
\* flagged end emitted for an 11th silent frame.
C4_Original ==
    ScenarioDone =>
      /\ Len(scenLog) = 4
      /\ scenLog[1][2] = 1
      /\ \E i \in 1..Len(scenLog) :
           scenLog[i] = <<MIN_VOICE_FRAMES + 11, 2>>

\* C4, amended: the scenario produces one utterance of 11 packets: the start-flagged
\* one for the third voiced frame, one for each of the silent frames 1..9, and the
\* end-flagged one for the 10th silent frame.
C4_Scenario ==
    ScenarioDone =>
      /\ ~isTransmitting
      /\ Len(scenLog) = 11
      /\ scenLog[1] = <<MIN_VOICE_FRAMES, 1>>
      /\ \A i \in 2..10 : scenLog[i] = <<MIN_VOICE_FRAMES + i - 1, 0>>
      /\ scenLog[11] = <<MIN_VOICE_FRAMES + SILENCE_FRAMES, 2>>

C4_Witness == ScenarioDone /\ Len(scenLog) > 0

\* C5 as stated: header plus payload of every packet fit in PACKET_SIZE bytes, for every
\* sample count up to the capacity of the capture buffer.
C5_Original ==
    lastPkt # NoPacket =>
      PacketBytes(lastPkt) <= PACKET_SIZE

\* C5, amended: the payload of every packet fits in PACKET_SIZE bytes, so the packet
\* is at most PACKET_SIZE + 18 bytes, for every sample count up to the capacity of the
\* capture buffer.
C5_PayloadLimit ==
    lastPkt # NoPacket =>
      /\ lastPkt.length = 2 * lastPkt.header.samples_count
      /\ lastPkt.length <= PACKET_SIZE
      /\ PacketBytes(lastPkt) <= PACKET_SIZE + HeaderSize
      /\ \A n \in 1..BUFFER_SIZE : 2 * samplesCount(n) <= PACKET_SIZE

\* A frame filling the capture source's buffer went out as a packet of full payload.
C5_Witness ==
    /\ lastPkt # NoPacket
    /\ frame.n = BUFFER_SIZE \div 2
    /\ lastPkt.length = PACKET_SIZE

\* C6: the packets of a transmitted frame carry all the samples of the frame.
C6_NoSampleDiscarded ==
    (FrameDone /\ frame.copied) => SentSamples(frame.log) >= frame.n

\* C7: the checksum of every packet is the CRC-16 of the payload bytes written after
\* its header, and samples_count is the number of samples in that payload.
C7_ChecksumOfPayload ==
    lastPkt # NoPacket =>
      LET bytes == BytesOf(lastPkt.payload) IN
      /\ Checksum(lastPkt.header) = calculateCRC16(bytes, Len(bytes))
      /\ lastPkt.header.checksum.length = Len(bytes)
      /\ lastPkt.length = Len(bytes)
      /\ lastPkt.header.samples_count = RunsLen(lastPkt.payload)

\* A capture ran between the copy into sendBuffer and the header: the copy took no
\* sample, the packet declares one.
C7_Witness ==
    /\ lastPkt # NoPacket
    /\ frame.copied /\ frame.n = 0
    /\ lastPkt.header.samples_count = 1

\* C8: a failed udp.endPacket() leaves the counter advanced past the packet, the VAD
\* state as it was, and the main thread where a successful send leaves it.
C8_FailedSend ==
    [][(pc = "send_udp" /\ pc' # "send_udp" /\ ~lastPkt'.delivered) =>
          /\ lastPkt'.header = header
          /\ packetSequence' = packetSequence
          /\ packetSequence = header.sequence + 1
          /\ isTransmitting' = isTransmitting
          /\ voiceCounter' = voiceCounter
          /\ silenceCounter' = silenceCounter
          /\ pc' = (IF isFinal THEN "vad_stop" ELSE "loop_wifi")]_vars

\* A packet in the middle of an utterance was not delivered, and the loop goes on.
C8_Witness ==
    /\ lastPkt # NoPacket
    /\ ~lastPkt.delivered
    /\ lastPkt.header.sequence > 0
    /\ isTransmitting
    /\ pc = "loop_wifi"

\* C9: a frame taken while transmitting emits exactly one packet and advances
\* packetSequence by one.
C9_OnePacketPerFrame ==
    (FrameDone /\ frame.tx0) =>
      /\ Len(frame.log) = 1
      /\ packetSequence = frame.seq0 + 1

\* A silent frame inside an utterance was sent.
C9_Witness ==
    /\ FrameDone /\ frame.tx0 /\ isTransmitting
    /\ silentRun > 0
    /\ Len(frame.log) = 1

\* C10: after a failed PDM.begin the main thread stays halted in setup(): no frame is
\* ready or processed and no packet is emitted.
C10_HaltOnPdmFailure ==
    pdm = "failed" =>
      /\ pc = "halt_pdm"
      /\ ~audioReady
      /\ ~frame.active
      /\ voiceCounter = 0 /\ silenceCounter = 0
      /\ packetSequence = 0 /\ uttPkts = 0
      /\ lastPkt = NoPacket

C10_Witness == pdm = "failed" /\ wifiBegun /\ udpBound

\* The main thread is in the connectWiFi() that loop() called.
Reconnecting == pc \in {"connect_begin", "connect_wait"} /\ ret = "loop_audio"

\* C11: from the pass of loop() that reads the link as disconnected until connectWiFi()
\* returns, no frame is processed, no packet is emitted, and isTransmitting,
\* voiceCounter, silenceCounter and packetSequence keep their values; the main thread
\* leaves connectWiFi() only to the frame test of loop().
C11_BlockingReconnect ==
    [][((pc = "loop_wifi" /\ pc' = "connect_begin") \/ Reconnecting) =>
          /\ UNCHANGED <<isTransmitting, voiceCounter, silenceCounter, packetSequence>>
          /\ UNCHANGED <<uttPkts, sendBuffer, header>>
          /\ lastPkt' = NoPacket
          /\ ~frame'.active
          /\ pc' \in {"connect_begin", "connect_wait", "loop_audio"}]_vars

\* The link was lost in the middle of an utterance, with a frame waiting.
C11_Witness ==
    /\ pc = "connect_wait" /\ ret = "loop_audio"
    /\ isTransmitting
    /\ packetSequence > 1
    /\ audioReady

\* The reflected CRC-16 with polynomial 0xA001, seed 0xFFFF and no final XOR, as a
\* shift register fed with the bits of the message, lowest bit of each byte first.
ReferenceBit(crc, bit) ==
    IF crc % 2 # bit THEN Xor(crc \div 2, 40961) ELSE crc \div 2

RECURSIVE ReferenceByte(_, _, _)
ReferenceByte(crc, byte, k) ==
    IF k = 8 THEN crc
    ELSE ReferenceByte(ReferenceBit(crc, byte % 2), byte \div 2, k + 1)

RECURSIVE ReferenceFrom(_, _)
ReferenceFrom(bytes, crc) ==
    IF bytes = <<>> THEN crc
    ELSE ReferenceFrom(Tail(bytes), ReferenceByte(crc, Head(bytes), 0))

ReferenceCRC16(bytes) == ReferenceFrom(bytes, 65535)

\* One shift/XOR step, and eight of them.
ShiftXor(c) == IF c % 2 = 1 THEN Xor(c \div 2, 40961) ELSE c \div 2
EightSteps(c) == ShiftXor(ShiftXor(ShiftXor(ShiftXor(ShiftXor(ShiftXor(ShiftXor(ShiftXor(c))))))))

\* C12: the checksum calculateCRC16 gives for a payload is the reference CRC-16 of its
\* bytes: 0xFFFF for the empty payload, eight shift/XOR steps applied to the CRC of the
\* bytes before XORed with the byte for each further byte, and 0x4B37 for "123456789".
C12_CrcMatchesReference ==
    lastPkt # NoPacket =>
      LET bytes == BytesOf(lastPkt.payload)
          n == Len(bytes)
      IN /\ n = lastPkt.length
         /\ Checksum(lastPkt.header) = ReferenceCRC16(bytes)
         /\ calculateCRC16(bytes, n) = Checksum(lastPkt.header)
         /\ n = 0 => Checksum(lastPkt.header) = 65535
         /\ \A m \in 1..n :
              calculateCRC16(bytes, m) = EightSteps(Xor(calculateCRC16(bytes, m - 1), bytes[m]))
         /\ calculateCRC16(<<49, 50, 51, 52, 53, 54, 55, 56, 57>>, 9) = 19255

\* A packet of two samples went out, one of them the word 0xA001.
C12_Witness ==
    /\ lastPkt # NoPacket
    /\ lastPkt.length = 4
    /\ 40961 \in {lastPkt.payload[i].v : i \in 1..Len(lastPkt.payload)}

\* C13: the timestamp of a packet is millis() at the capture callback that filled the
\* frame copied into the packet.
C13_TimestampAtCapture ==
    (lastPkt # NoPacket /\ frame.copied) => lastPkt.header.timestamp = frame.t

\* C14: in the passenger sketch, samples_count of every packet is the number of
\* samples written as its payload.
C14_PassageiroCount ==
    lastPkt # NoPacket => lastPkt.header.samples_count = RunsLen(lastPkt.payload)

C16_OneFillPerFrame ==
    FrameDone =>
      \A i, j \in 1..Len(frame.reads) : frame.reads[i] = frame.reads[j]

\* C17: no access leaves a buffer: samplesRead and every count read from it stay
\* within audioBuffer, audioBuffer and sendBuffer keep their sizes (no write past
\* their ends), and no more than PACKET_SIZE/2 samples are declared, summed by the
\* CRC or sent from sendBuffer.
C17_NoOutOfBounds ==
    /\ samplesRead <= BUFFER_SIZE
    /\ RunsLen(audioBuffer) = BUFFER_SIZE
    /\ RunsLen(sendBuffer) = PACKET_SIZE \div 2
    /\ \A i \in 1..Len(frame.reads) : frame.reads[i] <= BUFFER_SIZE
    /\ header # NoHeader =>
         /\ header.samples_count <= PACKET_SIZE \div 2
         /\ header.checksum.length <= PACKET_SIZE
         /\ RunsLen(header.checksum.data) * 2 = header.checksum.length
    /\ lastPkt # NoPacket =>
         /\ lastPkt.length <= PACKET_SIZE
         /\ RunsLen(lastPkt.payload) * 2 = lastPkt.length

\* A whole capture buffer was sent, cut to the size of sendBuffer, while the next
\* burst had already arrived.
C17_Witness ==
    /\ lastPkt # NoPacket
    /\ frame.copied
    /\ frame.n = BUFFER_SIZE \div 2
    /\ RunsLen(lastPkt.payload) = PACKET_SIZE \div 2
    /\ audioReady

\* C18 as stated: after the frame that ends an utterance both debounce counters are 0.
C18_Original ==
    (FrameDone /\ FrameEnded) => (voiceCounter = 0 /\ silenceCounter = 0)

\* C18, amended: after the frame that ends an utterance voiceCounter is 0 and
\* silenceCounter is SILENCE_FRAMES.
C18_CountersAfterEnd ==
    (FrameDone /\ FrameEnded) => (voiceCounter = 0 /\ silenceCounter = SILENCE_FRAMES)

\* An utterance has ended and the next frame has not been taken yet.
C18_Witness ==
    /\ FrameDone /\ FrameEnded
    /\ silenceCounter > 0
    /\ ~audioReady

\* C19: isTransmitting goes from true to false only in the stop branch of a frame
\* classified silent whose silenceCounter has reached SILENCE_FRAMES, after the final
\* packet; no other step (a failed send, a reconnect, a capture) clears it.
C19_EndOnlyBySilence ==
    [][(isTransmitting /\ ~isTransmitting') =>
          /\ pc = "vad_stop"
          /\ frame.active /\ frame.tx0
          /\ silentRun >= 1
          /\ voiceCounter = 0
          /\ silenceCounter >= SILENCE_FRAMES
          /\ Len(frame.log) = 1
          /\ frame.log[1].flags = 2]_vars

\* The send of the final packet has failed and the stop branch goes on.
C19_Witness ==
    /\ pc = "vad_stop"
    /\ isTransmitting
    /\ silenceCounter = SILENCE_FRAMES
    /\ lastPkt # NoPacket
    /\ ~lastPkt.delivered

\* C20: a frame processed while the node is not transmitting emits no packet and
\* leaves packetSequence unchanged, unless it is the frame that starts the utterance:
\* silent frames and the first MIN_VOICE_FRAMES-1 voiced frames of a run emit nothing.
C20_IdleFramesEmitNothing ==
    (FrameDone /\ ~frame.tx0) =>
      /\ ~isTransmitting =>
           /\ frame.log = <<>>
           /\ ~frame.copied
           /\ packetSequence = frame.seq0
      /\ (silentRun > 0 \/ voicedRun < MIN_VOICE_FRAMES) => ~isTransmitting
      /\ frame.log # <<>> => (isTransmitting /\ voicedRun = MIN_VOICE_FRAMES)

\* After an earlier utterance, the second voiced frame of a run has been processed.
C20_Witness ==
    /\ FrameDone /\ ~frame.tx0 /\ ~isTransmitting
    /\ voicedRun = MIN_VOICE_FRAMES - 1
    /\ packetSequence > 0

----------------------------------------------------------------------------
\* The loop of a node that is transmitting while the capture source delivers silent
\* frames only: the state after the frame that started the utterance, then loop()
\* and the callback on bursts of samples of magnitude 200.  The main thread takes a
\* step whenever it can, and the callback keeps running.

InitLive ==
    /\ pc = "loop_audio"
    /\ ret = "none"
    /\ wifiBegun = TRUE
    /\ udpBound = TRUE
    /\ pdm = "running"
    /\ now = 0
    /\ audioBuffer = <<[v |-> 64636, n |-> 1], [v |-> 0, n |-> BUFFER_SIZE - 1]>>
    /\ sendBuffer = <<[v |-> 64636, n |-> 1], [v |-> 0, n |-> (PACKET_SIZE \div 2) - 1]>>
    /\ samplesRead = 1
    /\ audioReady = FALSE
    /\ silenceCounter = 0
    /\ voiceCounter = MIN_VOICE_FRAMES
    /\ isTransmitting = TRUE
    /\ lastActivityTime = 0
    /\ packetSequence = 1
    /\ energy = 0
    /\ isFinal = FALSE
    /\ header = NoHeader
    /\ lastPkt = NoPacket
    /\ frame = NoFrame
    /\ uttPkts = 1
    /\ voicedRun = MIN_VOICE_FRAMES
    /\ silentRun = 0
    /\ scen = -1
    /\ scenLog = <<>>
    /\ prevPkt = [flags |-> 1, sequence |-> 0]
    /\ capturedAt = 0
    /\ sequenceNumber = 0

CaptureSilent == \E b \in SilentBurstBytes : onPDMdata(b, 200)

MainLive ==
    \/ connectWiFi_begin
    \/ connectWiFi_wait
    \/ loop_checkWiFi
    \/ loop_takeFrameWrapped
    \/ processAudioWithVAD_sum
    \/ processAudioWithVAD_vad
    \/ processAudioWithVAD_stop
    \/ processAudioWithVAD_transmit
    \/ sendAudioData_header
    \/ sendAudioData_udp

NextLive == MainLive \/ CaptureSilent

SpecLive == InitLive /\ [][NextLive]_vars /\ WF_vars(MainLive) /\ WF_vars(CaptureSilent)

----------------------------------------------------------------------------
\* The step of the main thread that hands a packet to the network.
Emits == pc = "send_udp" /\ pc' # "send_udp"

StartFlagged(f) == f % 2 = 1
FinalFlagged(f) == (f \div 2) % 2 = 1

\* C21: the final-flagged packet is the last packet of its utterance.  A packet is
\* start-flagged exactly when it is the first packet ever or the packet emitted last
\* was final-flagged, so start and final flags alternate beginning with a start and
\* nothing is emitted between a final packet and the next start; every other packet,
\* the final one included, carries the sequence number that follows the packet
\* before it, which makes the final packet's number the highest of the utterance;
\* and the frame that emits the final packet emits no packet after it.
C21_FinalIsLast ==
    /\ [][Emits =>
            /\ StartFlagged(header.flags) <=> (prevPkt = NoMark \/ FinalFlagged(prevPkt.flags))
            /\ ~StartFlagged(header.flags) => header.sequence = prevPkt.sequence + 1
            /\ FinalFlagged(header.flags) =>
                 /\ ~StartFlagged(header.flags)
                 /\ header.sequence = uttPkts
                 /\ pc' = "vad_stop"]_vars
    /\ [](\A i \in 1..Len(frame.log) :
            FinalFlagged(frame.log[i].flags) => i = Len(frame.log))
    /\ []((FrameDone /\ FinalFlagged(prevPkt.flags)) => ~isTransmitting)

\* The start packet of a second utterance has been emitted: the utterance before it
\* ended with a final packet numbered SILENCE_FRAMES or more.
C21_Witness ==
    /\ lastPkt # NoPacket
    /\ StartFlagged(prevPkt.flags)
    /\ ~frame.tx0
    /\ frame.seq0 > SILENCE_FRAMES


\* C22: whenever processAudioWithVAD computes the energy the valid sample count is at
\* least 1: the main thread never stands at energy /= samplesRead with samplesRead = 0,
\* whatever positive byte count the capture callback was given.
C22_DivisorPositive ==
    pc = "vad_div" => samplesRead >= 1


\* C23: the payload of every emitted packet, the final-flagged one included, consists
\* of samples of the frame being processed when the packet is emitted: a packet that
\* carries samples was preceded, in the processing of its frame, by the copy of that
\* frame's samples into sendBuffer.
C23_PayloadOfCurrentFrame ==
    (lastPkt # NoPacket /\ lastPkt.length > 0) => frame.copied


\* C24: after every completed call of processAudioWithVAD at most one of
\* voiceCounter and silenceCounter is non-zero, isTransmitting implies
\* silenceCounter < SILENCE_FRAMES, and not isTransmitting implies
\* voiceCounter < MIN_VOICE_FRAMES.
C24_CounterInvariants ==
    FrameDone =>
      /\ voiceCounter = 0 \/ silenceCounter = 0
      /\ isTransmitting => silenceCounter < SILENCE_FRAMES
      /\ ~isTransmitting => voiceCounter < MIN_VOICE_FRAMES

\* A transmitting node has processed its ninth silent frame in a row.
C24_Witness ==
    /\ FrameDone /\ frame.tx0 /\ isTransmitting
    /\ silenceCounter = SILENCE_FRAMES - 1
    /\ voiceCounter = 0


\* A frame is taken for processing.
FrameTaken == pc = "vad_energy"

\* C25: a transmitting node on which frames keep being delivered and taken, every
\* delivered frame being silent, eventually emits a final-flagged packet and is not
\* transmitting.
C25_SilenceEndsUtterance ==
    []<>FrameTaken => <>(~isTransmitting /\ FinalFlagged(prevPkt.flags))

====
